---- MODULE Spec2Model ----
(***************************************************************************)
(* Hierarchy builders, classifier, scrape run and text utilities of         *)
(* portal-leis-brasileiras.                                                *)
(*                                                                         *)
(* The repository holds two variants of the constitution scraper:          *)
(*   src/scraping  - ConstitutionProcessor keeps children in nested dicts  *)
(*                   (the "dict-based builder");                           *)
(*   src/scraper   - ConstitutionProcessor keeps children in lists and     *)
(*                   fabricates placeholder parents ("list-based builder").*)
(* A run executes one variant; `variant` records which.  Objects are kept  *)
(* in a heap (a sequence of records): an object's identity is its index.   *)
(***************************************************************************)
EXTENDS Naturals, Sequences, FiniteSets, TLC

VARIABLES
    variant,            \* what runs: "scraping" | "scraper" (a builder),
                        \* "scrape" (a run of scrape()), "text" (a utility),
                        \* "fetch" (a run of _fetch_html)
    calls,              \* number of process_element calls made so far
    heap,               \* scraping: every ConstitutionalElement created
    current_structure,  \* scraping: ConstitutionProcessor.current_structure
    history,            \* the tuples passed to process_element so far
    lheap,              \* scraper: every ConstitutionalElement created
    lroot,              \* scraper: ConstitutionProcessor.root
    lcurrent,           \* scraper: ConstitutionProcessor.current_structure
    processed_elements, \* scraper: ConstitutionProcessor.processed_elements
    font,               \* scrape: text of the page's first <font face="Arial">
    doc,                \* scrape: texts of the page's <p> elements, in order
    pos,                \* scrape: stages of iter_constitutional_elements done
    outcome,            \* scrape: how the run of scrape() ended, once it has
    arg,                \* text utilities: the argument of the call
    ret,                \* text utilities: what the call returned
    max_retries,        \* fetch: ConstitutionScraper.max_retries
    attempt,            \* fetch: the loop variable of _fetch_html
    tries,              \* fetch: tries the retry decorator of get has made
    gets,               \* fetch: how each finished call of client.get ended
    fetched             \* fetch: how _fetch_html ended, once it has

scrapingVars == <<heap, current_structure>>
scraperVars == <<lheap, lroot, lcurrent, processed_elements>>
pageVars == <<font, doc>>
callVars == <<arg, ret>>
fetchVars == <<max_retries, attempt, tries, gets, fetched>>
vars == <<variant, calls, history, scrapingVars, scraperVars, pageVars, pos,
          outcome, callVars, fetchVars>>

\* Bound on the number of process_element calls of one run.
MaxCalls == 3

\* Bound on the number of <p> elements of a scraped page.
MaxParas == 2

\* The Roman numerals handed to the conversion are those of 1..MaxNumeral.
MaxNumeral == 3999

\* Bound on the length of the strings of Roman letters handed to the
\* conversion.
MaxLen == 3

\* A Python string is the sequence of its characters.  Python's None, as a
\* number, a title or a text, is a one-element sequence that is no string of
\* characters.
None == <<"None">>

\* Element numbers handed to process_element (None included: the
\* classifier's extractors return None when their pattern finds nothing).
Numbers == {None, <<"I">>, <<"I", "I">>}

\* The i-th call carries the text i: texts of different paragraphs differ.
TextOf(i) == i

---------------------------------------------------------------------------
(* src/scraping/src/utils/constitution_structure.py                        *)

StructureType ==
    <<"PREAMBULO", "TITULO", "CAPITULO", "SECAO", "SUBSECAO",
      "ARTIGO", "PARAGRAFO", "INCISO", "ALINEA", "ADCT">>

StructureTypes == {StructureType[i] : i \in 1..Len(StructureType)}

\* ConstitutionProcessor._get_hierarchy_level
_get_hierarchy_level(t) ==
    CASE t = "PREAMBULO" -> 0
      [] t = "TITULO"    -> 1
      [] t = "CAPITULO"  -> 2
      [] t = "SECAO"     -> 3
      [] t = "SUBSECAO"  -> 4
      [] t = "ARTIGO"    -> 5
      [] t = "PARAGRAFO" -> 6
      [] t = "INCISO"    -> 7
      [] t = "ALINEA"    -> 8
      [] t = "ADCT"      -> 1

\* type_mapping of ConstitutionProcessor._get_element_key
type_mapping(t) ==
    CASE t = "TITULO"    -> "titulos"
      [] t = "CAPITULO"  -> "capitulos"
      [] t = "SECAO"     -> "secoes"
      [] t = "SUBSECAO"  -> "subsecoes"
      [] t = "ARTIGO"    -> "artigos"
      [] t = "PARAGRAFO" -> "paragrafos"
      [] t = "INCISO"    -> "incisos"
      [] t = "ALINEA"    -> "alineas"
      [] t = "ADCT"      -> "adct"

\* element_type.value.lower()
value_lower(t) ==
    CASE t = "PREAMBULO" -> "preambulo"
      [] t = "TITULO"    -> "titulo"
      [] t = "CAPITULO"  -> "capitulo"
      [] t = "SECAO"     -> "secao"
      [] t = "SUBSECAO"  -> "subsecao"
      [] t = "ARTIGO"    -> "artigo"
      [] t = "PARAGRAFO" -> "paragrafo"
      [] t = "INCISO"    -> "inciso"
      [] t = "ALINEA"    -> "alinea"
      [] t = "ADCT"      -> "adct"

\* ConstitutionalElement(type, number, title): a fresh object, no children,
\* no content.
ConstitutionalElement(t, number, title) ==
    [type |-> t, number |-> number, title |-> title,
     children |-> <<>>, content |-> <<>>]

\* self.root and self.adct are bound once in __init__ and never rebound.
root == 1
adct == 2

\* An entry of ConstitutionalElement.children (an insertion-ordered dict):
\* the value under `key` is either a dict number -> element (isdict, items)
\* or one element (el).
DictEntry(key) == [key |-> key, isdict |-> TRUE, items |-> <<>>, el |-> 0]
ElemEntry(key, e) == [key |-> key, isdict |-> FALSE, items |-> <<>>, el |-> e]

\* Position of key k in an insertion-ordered dict (0: absent).
KeyIndex(d, k) ==
    IF \E i \in 1..Len(d) : d[i].key = k
    THEN CHOOSE i \in 1..Len(d) : d[i].key = k
    ELSE 0

\* Python's d[k] = v on an insertion-ordered dict whose entries are
\* [key, el]: an existing key keeps its position and gets the new value.
ItemSetOverwrite(items, num, e) ==
    LET i == KeyIndex(items, num) IN
    IF i = 0 THEN Append(items, [key |-> num, el |-> e])
    ELSE [items EXCEPT ![i].el = e]

\* (a dict that kept its keys sorted would put "I" before "II")
ItemSetSorted(items, num, e) ==
    IF num = <<"I">> /\ KeyIndex(items, num) = 0
    THEN <<[key |-> num, el |-> e]>> \o items
    ELSE ItemSetOverwrite(items, num, e)
ItemSet(items, num, e) == ItemSetOverwrite(items, num, e)

\* ConstitutionProcessor._get_element_key: "base/number", or "base" alone
\* when the number is falsy; add_child splits it again at '/'.
_get_element_key(e) ==
    IF e.number = None
    THEN [base |-> type_mapping(e.type), numbered |-> FALSE, number |-> None]
    ELSE [base |-> type_mapping(e.type), numbered |-> TRUE, number |-> e.number]

\* ConstitutionalElement.add_child(key, element) on object p of heap h.
add_child(h, p, key, e) ==
    LET ch == h[p].children
        i  == KeyIndex(ch, key.base)
    IN
    IF key.numbered
    THEN LET ch1 == IF i = 0 THEN Append(ch, DictEntry(key.base)) ELSE ch
             j   == KeyIndex(ch1, key.base)
         IN IF ch1[j].isdict
            THEN [h EXCEPT ![p].children =
                     [ch1 EXCEPT ![j].items = ItemSet(@, key.number, e)]]
            ELSE h
    ELSE [h EXCEPT ![p].children =
             IF i = 0 THEN Append(ch, ElemEntry(key.base, e))
             ELSE [ch EXCEPT ![i] = ElemEntry(key.base, e)]]

\* ConstitutionalElement.add_content
add_content(h, p, content_type, number, text) ==
    [h EXCEPT ![p].content =
        Append(@, [classe |-> content_type, numero |-> number, texto |-> text])]

\* (an update that empties current_structure whatever the level)
RemovedLevel_all(lt, l) == TRUE

\* The levels _update_structure removes when an element of level l arrives.
RemovedLevel(lt, l) == lt >= l

\* ConstitutionProcessor._update_structure: current_structure is an
\* insertion-ordered dict type -> element, kept as a sequence of [t, e].
_update_structure(cs, e, t) ==
    LET kept == SelectSeq(cs, LAMBDA s :
                    ~RemovedLevel(_get_hierarchy_level(s.t), _get_hierarchy_level(t)))
    IN Append(kept, [t |-> t, e |-> e])

\* The loop of _place_element: the last entry, in dict order, whose level
\* is below current_level; self.root when there is none.
find_parent_first(cs, current_level) ==
    LET lower == SelectSeq(cs, LAMBDA s : _get_hierarchy_level(s.t) < current_level)
    IN IF lower = <<>> THEN root ELSE lower[1].e
find_parent_le(cs, current_level) ==
    LET lower == SelectSeq(cs, LAMBDA s : _get_hierarchy_level(s.t) <= current_level)
    IN IF lower = <<>> THEN root ELSE lower[Len(lower)].e
find_parent(cs, current_level) ==
    LET lower == SelectSeq(cs, LAMBDA s : _get_hierarchy_level(s.t) < current_level)
    IN IF lower = <<>> THEN root ELSE lower[Len(lower)].e

\* ConstitutionProcessor._place_element
_place_element(h, cs, e) ==
    add_child(h, find_parent(cs, _get_hierarchy_level(h[e].type)),
              _get_element_key(h[e]), e)

\* ConstitutionProcessor.process_element: the new (heap, current_structure).
\* StructureType[type_str.upper()] raises KeyError for a label that names no
\* member; the handler logs it and raises it again with nothing changed.
process_element(h, cs, type_str, number, title, text) ==
    IF type_str \notin StructureTypes
    THEN [heap |-> h, cs |-> cs]
    ELSE IF type_str = "PREAMBULO"
    THEN [heap |-> add_content(h, root, "preambulo", None, text), cs |-> cs]
    ELSE IF type_str = "ADCT"
    THEN [heap |-> add_content(h, adct, "adct", number, text), cs |-> cs]
    ELSE LET e  == Len(h) + 1
             h1 == Append(h, ConstitutionalElement(type_str, number, title))
             h2 == add_content(h1, e, value_lower(type_str), number, text)
             cs1 == _update_structure(cs, e, type_str)
         IN [heap |-> _place_element(h2, cs1, e), cs |-> cs1]

---------------------------------------------------------------------------
(* Serialisation (scraping): a Python dict is an insertion-ordered         *)
(* sequence of [key, val]; a value is tagged with what it is.              *)

Field(k, v) == [key |-> k, val |-> v]
\* a list of {classe, numero, texto} records
ContentVal(c) == [tag |-> "content", fields |-> <<>>, entries |-> c, id |-> 0]
\* a dict built by to_dict: the projection of one element
ObjectVal(f) == [tag |-> "object", fields |-> f, entries |-> <<>>, id |-> 0]
\* a dict number -> value
MappingVal(f) == [tag |-> "mapping", fields |-> f, entries |-> <<>>, id |-> 0]
\* a ConstitutionalElement object itself (nothing json can write)
ElementVal(e) == [tag |-> "element", fields |-> <<>>, entries |-> <<>>, id |-> e]

RECURSIVE Flatten(_)
Flatten(ss) == IF ss = <<>> THEN <<>> ELSE Head(ss) \o Flatten(Tail(ss))

HasKey(d, k) == \E i \in 1..Len(d) : d[i].key = k
Get(d, k) == d[KeyIndex(d, k)].val
Keys(d) == {d[i].key : i \in 1..Len(d)}

\* ConstitutionalElement.to_dict
RECURSIVE to_dict(_, _)
to_dict(h, e) ==
    LET el  == h[e]
        own == IF el.type = "PREAMBULO" /\ el.content # <<>>
               THEN <<Field("preambulo", ContentVal(el.content))>>
               ELSE IF el.content # <<>>
                    THEN <<Field("conteudo", ContentVal(el.content))>>
                    ELSE <<>>
        OfChild(c) ==
            IF c.isdict
            THEN LET all == [i \in 1..Len(c.items) |->
                                Field(c.items[i].key, ObjectVal(to_dict(h, c.items[i].el)))]
                     child_dict == SelectSeq(all, LAMBDA x : x.val.fields # <<>>)
                 IN IF child_dict = <<>> THEN <<>>
                    ELSE <<Field(c.key, MappingVal(child_dict))>>
            ELSE LET child_dict == to_dict(h, c.el)
                 IN IF child_dict = <<>> THEN <<>>
                    ELSE <<Field(c.key, ObjectVal(child_dict))>>
    IN own \o Flatten([i \in 1..Len(el.children) |-> OfChild(el.children[i])])

\* The value get_result stores for one entry of self.root.children: the
\* projection of a single element, but the children dict itself, as it is,
\* for numbered children.
RootChildValue(h, c) ==
    IF c.isdict
    THEN MappingVal([i \in 1..Len(c.items) |->
                        Field(c.items[i].key, ElementVal(c.items[i].el))])
    ELSE ObjectVal(to_dict(h, c.el))

\* (a get_result that always hands out the three top-level keys the schema
\* requires, empty when there is nothing under them)
get_result_required(h) ==
    LET preambulo_dict == to_dict(h, root)
        main == [i \in 1..Len(h[root].children) |->
                    Field(h[root].children[i].key,
                          RootChildValue(h, h[root].children[i]))]
    IN <<Field("preambulo", ContentVal(h[root].content))>>
       \o (IF \E i \in 1..Len(main) : main[i].key = "titulos" THEN <<>>
           ELSE <<Field("titulos", MappingVal(<<>>))>>)
       \o main
       \o <<Field("adct", ObjectVal(to_dict(h, adct)))>>
\* ConstitutionProcessor.get_result
get_result(h) ==
    LET preambulo_dict == to_dict(h, root)
        pre  == IF HasKey(preambulo_dict, "preambulo")
                THEN <<Field("preambulo", Get(preambulo_dict, "preambulo"))>>
                ELSE <<>>
        main == [i \in 1..Len(h[root].children) |->
                    Field(h[root].children[i].key,
                          RootChildValue(h, h[root].children[i]))]
        adct_dict == to_dict(h, adct)
        tr   == IF adct_dict # <<>> THEN <<Field("adct", ObjectVal(adct_dict))>>
                ELSE <<>>
    IN pre \o main \o tr

---------------------------------------------------------------------------
(* src/scraper/src/utils/constitution_structure.py                         *)

\* Python's None where a StructureType is expected.
NoType == "None"

\* StructureType.get_hierarchy
get_hierarchy ==
    <<"PREAMBULO", "TITULO", "CAPITULO", "SECAO", "SUBSECAO",
      "ARTIGO", "PARAGRAFO", "INCISO", "ALINEA">>

ScraperTypes == {get_hierarchy[i] : i \in 1..Len(get_hierarchy)}

\* hierarchy.index(t), counted from 0 as in Python
hierarchy_index(t) == (CHOOSE i \in 1..Len(get_hierarchy) : get_hierarchy[i] = t) - 1

\* ConstitutionalElement(type, number, title, text) of the list-based variant
scraper_ConstitutionalElement(t, number, title, text) ==
    [type |-> t, number |-> number, title |-> title, text |-> text,
     children |-> <<>>, parent |-> 0]

\* ConstitutionalElement._validate_child
_validate_child(parent, child) ==
    hierarchy_index(child.type) > hierarchy_index(parent.type)

\* ConstitutionalElement.add_child (list-based)
scraper_add_child(h, p, c) ==
    IF ~_validate_child(h[p], h[c]) THEN h
    ELSE [h EXCEPT ![c].parent = p, ![p].children = Append(@, c)]

\* ConstitutionProcessor._find_parent_type
_find_parent_type(t) ==
    IF hierarchy_index(t) > 0 THEN get_hierarchy[hierarchy_index(t)] ELSE NoType

\* ConstitutionProcessor._update_current_structure: current_structure is
\* read by key only, so it is a function type -> element (0: no entry).
_update_current_structure(cur, e, t) ==
    [u \in ScraperTypes |->
        IF u = t THEN e
        ELSE IF hierarchy_index(u) > hierarchy_index(t) THEN 0
        ELSE cur[u]]

\* ConstitutionProcessor._handle_element_placement and _get_or_create_parent
\* call each other; S is the processor's state [heap, root, cur].
RECURSIVE _handle_element_placement(_, _)
_get_or_create_parent(S, parent_type) ==
    IF S.cur[parent_type] # 0
    THEN [S |-> S, parent |-> S.cur[parent_type]]
    ELSE LET p  == Len(S.heap) + 1
             S1 == [S EXCEPT
                      !.heap = Append(@, scraper_ConstitutionalElement(
                                             parent_type, None, None, None)),
                      !.cur[parent_type] = p]
         IN [S |-> _handle_element_placement(S1, p), parent |-> p]

_handle_element_placement(S, e) ==
    IF S.heap[e].type = "PREAMBULO"
    THEN [S EXCEPT !.root = e]
    ELSE LET parent_type == _find_parent_type(S.heap[e].type)
         IN IF parent_type = NoType THEN S
            ELSE LET r  == _get_or_create_parent(S, parent_type)
                     S2 == [r.S EXCEPT !.heap = scraper_add_child(@, r.parent, e)]
                 IN [S2 EXCEPT !.cur =
                        _update_current_structure(@, e, S.heap[e].type)]

\* element_id = f"{element_type.value}_{number or 'none'}"
element_id(t, number) ==
    <<value_lower(t), IF number = None THEN <<"n", "o", "n", "e">> ELSE number>>

\* ConstitutionProcessor.process_element (list-based): the new state
\* [heap, root, cur, processed].
scraper_process_element(S, type_str, number, title, text) ==
    IF type_str \notin ScraperTypes THEN S
    ELSE IF element_id(type_str, number) \in S.processed THEN S
    ELSE LET e  == Len(S.heap) + 1
             S1 == [S EXCEPT !.heap = Append(@, scraper_ConstitutionalElement(
                                                    type_str, number, title, text))]
             S2 == _handle_element_placement(S1, e)
         IN [S2 EXCEPT !.processed = @ \cup {element_id(type_str, number)}]

\* ConstitutionProcessor.validate_structure
RECURSIVE validate_element(_, _)
validate_element(h, e) ==
    IF h[e].children # <<>>
    THEN /\ \A i \in 1..Len(h[e].children) :
               ~(hierarchy_index(h[h[e].children[i]].type) <= hierarchy_index(h[e].type))
         /\ \A i \in 1..Len(h[e].children) : validate_element(h, h[e].children[i])
    ELSE TRUE

validate_structure == validate_element(lheap, lroot)

---------------------------------------------------------------------------
(* src/scraping/src/utils/html_parser.py                                   *)
(* A text is the sequence of its characters.  Characters outside ASCII are *)
(* spelled: "I/" is I-acute, "C," C-cedilla, "A~" A-tilde, "O~" O-tilde,   *)
(* "O/" O-acute, "a/" a-acute (lower case alike), "SECT" the section sign, *)
(* "--" the en dash.                                                       *)

LowerChars ==
    <<"a", "b", "c", "d", "e", "f", "g", "h", "i", "j", "k", "l", "m", "n",
      "o", "p", "q", "r", "s", "t", "u", "v", "w", "x", "y", "z",
      "i/", "c,", "a~", "o~", "o/", "a/", "u/">>
UpperChars ==
    <<"A", "B", "C", "D", "E", "F", "G", "H", "I", "J", "K", "L", "M", "N",
      "O", "P", "Q", "R", "S", "T", "U", "V", "W", "X", "Y", "Z",
      "I/", "C,", "A~", "O~", "O/", "A/", "U/">>

CharIndex(cs, c) ==
    IF \E i \in 1..Len(cs) : cs[i] = c
    THEN CHOOSE i \in 1..Len(cs) : cs[i] = c
    ELSE 0

\* str.upper() and str.lower()
upper(s) == [i \in 1..Len(s) |->
                IF CharIndex(LowerChars, s[i]) # 0
                THEN UpperChars[CharIndex(LowerChars, s[i])] ELSE s[i]]
lower(s) == [i \in 1..Len(s) |->
                IF CharIndex(UpperChars, s[i]) # 0
                THEN LowerChars[CharIndex(UpperChars, s[i])] ELSE s[i]]

\* str.startswith(pre) and `sub in s`
startswith(s, pre) == Len(pre) <= Len(s) /\ SubSeq(s, 1, Len(pre)) = pre
contains(s, sub) ==
    \E i \in 1..(Len(s) + 1) :
        /\ i + Len(sub) - 1 <= Len(s)
        /\ \A k \in 1..Len(sub) : s[i + k - 1] = sub[k]

\* Length of the longest run of characters of class C that starts at s[i]:
\* what a greedy C* consumes there.
Run(s, i, C) ==
    CHOOSE n \in 0..(Len(s) + 1) :
        /\ i + n - 1 <= Len(s)
        /\ \A k \in 0..(n - 1) : s[i + k] \in C
        /\ (i + n > Len(s) \/ s[i + n] \notin C)

Space == {" "}
Digit == {"0", "1", "2", "3", "4", "5", "6", "7", "8", "9"}
RomanChar == {"I", "V", "X", "L", "C", "D", "M"}
AsciiLower == {LowerChars[i] : i \in 1..26}

\* HTMLParser._clean_text: " ".join(text.strip().split())
RECURSIVE _clean_text(_)
_clean_text(text) ==
    IF text = <<>> THEN <<>>
    ELSE IF Head(text) = " " THEN _clean_text(Tail(text))
    ELSE LET n    == CHOOSE m \in 1..Len(text) :
                        /\ \A k \in 1..m : text[k] # " "
                        /\ (m = Len(text) \/ text[m + 1] = " ")
             rest == _clean_text(SubSeq(text, n + 1, Len(text)))
         IN IF rest = <<>> THEN SubSeq(text, 1, n)
            ELSE SubSeq(text, 1, n) \o <<" ">> \o rest

s_TITULO == <<"T", "I/", "T", "U", "L", "O">>
s_CAPITULO == <<"C", "A", "P", "I/", "T", "U", "L", "O">>
s_SECAO == <<"S", "E", "C,", "A~", "O">>
s_SUBSECAO == <<"S", "U", "B", "S", "E", "C,", "A~", "O">>
s_ART == <<"A", "R", "T", ".">>
s_Art == <<"A", "r", "t", ".">>
s_paragrafo == <<"p", "a", "r", "a/", "g", "r", "a", "f", "o">>
s_unico == <<"u/", "n", "i", "c", "o">>
s_ATO_DAS_DISPOSICOES ==
    <<"A", "T", "O", " ", "D", "A", "S", " ",
      "D", "I", "S", "P", "O", "S", "I", "C,", "O~", "E", "S">>
\* RegexPatterns.ADCT, as it reads on a cleaned text (one space between
\* words) in upper case
s_ADCT ==
    s_ATO_DAS_DISPOSICOES \o
    <<" ", "C", "O", "N", "S", "T", "I", "T", "U", "C", "I", "O", "N", "A", "I", "S",
      " ", "T", "R", "A", "N", "S", "I", "T", "O/", "R", "I", "A", "S">>

\* A check's answer: None, or the tuple (number, title).
NoResult == [found |-> FALSE, number |-> None, title |-> None]
Result(number, title) == [found |-> TRUE, number |-> number, title |-> title]

\* HTMLParser._check_adct: RegexPatterns.ADCT.search(text), IGNORECASE
_check_adct(text) ==
    IF contains(upper(text), s_ADCT) THEN Result(None, text) ELSE NoResult

\* HTMLParser._extract_roman_numeral: the first match of [IVXLCDM]+
_extract_roman_numeral(text) ==
    IF \E i \in 1..Len(text) : text[i] \in RomanChar
    THEN LET i == CHOOSE k \in 1..Len(text) :
                    /\ text[k] \in RomanChar
                    /\ \A j \in 1..(k - 1) : text[j] \notin RomanChar
         IN SubSeq(text, i, i + Run(text, i, RomanChar) - 1)
    ELSE None

\* (the title test without the article keyword)
_extract_title_no_art(raw) ==
    LET text == _clean_text(raw) IN
    IF /\ text # <<>>
       /\ \A keyword \in {s_TITULO, s_CAPITULO, s_SECAO, s_SUBSECAO,
                          s_ATO_DAS_DISPOSICOES} : ~contains(upper(text), keyword)
    THEN text ELSE None

\* HTMLParser._extract_title, of the next <p> sibling's text
_extract_title(raw) ==
    LET text == _clean_text(raw) IN
    IF /\ text # <<>>
       /\ \A keyword \in {s_TITULO, s_CAPITULO, s_SECAO, s_SUBSECAO, s_ART,
                          s_ATO_DAS_DISPOSICOES} : ~contains(upper(text), keyword)
    THEN text ELSE None

\* HTMLParser._check_structural_element; next_p is the text of the next <p>
\* sibling, None when there is none.
_check_structural_element(text, next_p, keyword) ==
    IF contains(upper(text), keyword)
    THEN Result(_extract_roman_numeral(text),
                IF next_p # None THEN _extract_title(next_p) ELSE None)
    ELSE NoResult

\* RegexPatterns.ARTICLE = Art\.\s*(\d+), matched at the start of the text
ArticleMatch(text) ==
    /\ startswith(text, s_Art)
    /\ Run(text, 5 + Run(text, 5, Space), Digit) >= 1
ArticleGroup(text) ==
    LET j == 5 + Run(text, 5, Space)
    IN SubSeq(text, j, j + Run(text, j, Digit) - 1)

\* HTMLParser._check_artigo and _extract_article_number
_check_artigo(text) ==
    IF ArticleMatch(text) THEN Result(ArticleGroup(text), None) ELSE NoResult

\* RegexPatterns.PARAGRAPH = §\s*(\d+), searched: the positions it matches at
ParagraphMatchAt(text, i) ==
    /\ text[i] = "SECT"
    /\ Run(text, i + 1 + Run(text, i + 1, Space), Digit) >= 1

\* HTMLParser._extract_paragraph_number
_extract_paragraph_number(text) ==
    IF contains(lower(text), s_unico) THEN s_unico
    ELSE IF \E i \in 1..Len(text) : ParagraphMatchAt(text, i)
    THEN LET i == CHOOSE k \in 1..Len(text) :
                    /\ ParagraphMatchAt(text, k)
                    /\ \A m \in 1..(k - 1) : ~ParagraphMatchAt(text, m)
             j == i + 1 + Run(text, i + 1, Space)
         IN SubSeq(text, j, j + Run(text, j, Digit) - 1)
    ELSE None

\* HTMLParser._check_paragrafo
_check_paragrafo(text) ==
    IF startswith(text, <<"SECT">>) \/ startswith(lower(text), s_paragrafo)
    THEN Result(_extract_paragraph_number(text), None)
    ELSE NoResult

\* HTMLParser._is_inciso: RegexPatterns.INCISO = ^[IVXLCDM]+\s*[-–]
_is_inciso(text) ==
    LET n == Run(text, 1, RomanChar)
        j == n + 1 + Run(text, n + 1, Space)
    IN n >= 1 /\ j <= Len(text) /\ text[j] \in {"-", "--"}

\* HTMLParser._check_inciso and _extract_inciso_number
_check_inciso(text) ==
    IF _is_inciso(text)
    THEN Result(SubSeq(text, 1, Run(text, 1, RomanChar)), None)
    ELSE NoResult

\* HTMLParser._is_alinea: RegexPatterns.ALINEA = ^[a-z]\)
_is_alinea(text) ==
    Len(text) >= 2 /\ text[1] \in AsciiLower /\ text[2] = ")"

\* HTMLParser._check_alinea and _extract_alinea_letter
_check_alinea(text) ==
    IF _is_alinea(text) THEN Result(<<text[1]>>, None) ELSE NoResult

\* (the checks with the Subsection rule moved before the Section rule)
element_checks_subsecao_first(text, next_p) ==
    << [type |-> "ADCT",      r |-> _check_adct(text)],
       [type |-> "TITULO",    r |-> _check_structural_element(text, next_p, s_TITULO)],
       [type |-> "CAPITULO",  r |-> _check_structural_element(text, next_p, s_CAPITULO)],
       [type |-> "SUBSECAO",  r |-> _check_structural_element(text, next_p, s_SUBSECAO)],
       [type |-> "SECAO",     r |-> _check_structural_element(text, next_p, s_SECAO)],
       [type |-> "ARTIGO",    r |-> _check_artigo(text)],
       [type |-> "PARAGRAFO", r |-> _check_paragrafo(text)],
       [type |-> "INCISO",    r |-> _check_inciso(text)],
       [type |-> "ALINEA",    r |-> _check_alinea(text)] >>

\* element_checks of _process_paragraph, in order
element_checks(text, next_p) ==
    << [type |-> "ADCT",      r |-> _check_adct(text)],
       [type |-> "TITULO",    r |-> _check_structural_element(text, next_p, s_TITULO)],
       [type |-> "CAPITULO",  r |-> _check_structural_element(text, next_p, s_CAPITULO)],
       [type |-> "SECAO",     r |-> _check_structural_element(text, next_p, s_SECAO)],
       [type |-> "SUBSECAO",  r |-> _check_structural_element(text, next_p, s_SUBSECAO)],
       [type |-> "ARTIGO",    r |-> _check_artigo(text)],
       [type |-> "PARAGRAFO", r |-> _check_paragrafo(text)],
       [type |-> "INCISO",    r |-> _check_inciso(text)],
       [type |-> "ALINEA",    r |-> _check_alinea(text)] >>

ElementTuple(t, number, title, text) ==
    [type |-> t, number |-> number, title |-> title, text |-> text]

\* What the loop of _process_paragraph yields when no check matches.
NoYield == <<>>

\* HTMLParser._process_paragraph: the tuples it yields (none or one) for the
\* <p> with text raw and next sibling next_p.
_process_paragraph(raw, next_p) ==
    LET text   == _clean_text(raw)
        checks == element_checks(text, next_p)
    IN IF text = <<>> THEN <<>>
       ELSE IF \E i \in 1..Len(checks) : checks[i].r.found
       THEN LET i == CHOOSE k \in 1..Len(checks) :
                        /\ checks[k].r.found
                        /\ \A j \in 1..(k - 1) : ~checks[j].r.found
            IN <<ElementTuple(checks[i].type, checks[i].r.number,
                              checks[i].r.title, text)>>
       ELSE NoYield

\* HTMLParser._process_preambulo: f is the text of the first
\* <font face="Arial">, None when the page has none.
_process_preambulo(f) ==
    IF f # None /\ _clean_text(f) # <<>>
    THEN <<ElementTuple("PREAMBULO", None, None, _clean_text(f))>>
    ELSE <<>>

---------------------------------------------------------------------------
(* src/scraper/src/utils/schema.py: jsonschema's validate() of a result    *)
(* against CONSTITUTION_SCHEMA.  A dict is a value tagged "object" (its    *)
(* keys are property names) or "mapping" (its keys are element numbers);   *)
(* an array is a value tagged "content"; a ConstitutionalElement object is *)
(* neither.                                                                *)

IsDict(v) == v.tag \in {"object", "mapping"}

AsciiUpper == {UpperChars[i] : i \in 1..26}
endswith(s, suf) ==
    Len(suf) <= Len(s) /\ SubSeq(s, Len(s) - Len(suf) + 1, Len(s)) = suf

\* The patternProperties of the schema, by the kind they describe
\* (patterns are searched, so "^[0-9]+|único$" is "digits first, or único
\* last").
KeyPattern(kind, k) ==
    CASE kind = "artigo" ->
            LET n == Run(k, 1, Digit)
            IN n >= 1 /\ (n = Len(k) \/ (n + 1 = Len(k) /\ k[n + 1] \in AsciiUpper))
      [] kind = "paragrafo" -> Run(k, 1, Digit) >= 1 \/ endswith(k, s_unico)
      [] kind = "alinea" -> Len(k) = 1 /\ k[1] \in AsciiLower
      [] OTHER -> k # <<>> /\ \A i \in 1..Len(k) : k[i] \in RomanChar

\* The kind a plural property describes, and the plural properties the
\* schema gives the objects of a kind.
Singular(plural) ==
    CASE plural = "titulos"    -> "titulo"
      [] plural = "capitulos"  -> "capitulo"
      [] plural = "secoes"     -> "secao"
      [] plural = "subsecoes"  -> "subsecao"
      [] plural = "artigos"    -> "artigo"
      [] plural = "paragrafos" -> "paragrafo"
      [] plural = "incisos"    -> "inciso"
      [] plural = "alineas"    -> "alinea"
SchemaProperties(kind) ==
    CASE kind = "titulo"    -> {"capitulos", "artigos"}
      [] kind = "capitulo"  -> {"secoes", "artigos"}
      [] kind = "secao"     -> {"subsecoes", "artigos"}
      [] kind = "artigo"    -> {"paragrafos", "incisos"}
      [] kind = "paragrafo" -> {"incisos"}
      [] kind = "inciso"    -> {"alineas"}
      [] kind = "alinea"    -> {}

\* A "conteudo" array of the schema: every item has the class of its kind
\* and a string for numero.
ValidConteudo(v, classe) ==
    /\ v.tag = "content"
    /\ \A i \in 1..Len(v.entries) :
          /\ v.entries[i].classe = classe
          /\ v.entries[i].numero # None

\* ValidCollection: a plural property (type object, patternProperties);
\* ValidNode: the object under one of its keys.  The schema of a Subsection
\* is the reference "#/definitions/dispositivos", which nothing defines:
\* validate() raises when it reaches it and validate_data answers False.
RECURSIVE ValidNode(_, _)
ValidCollection(v, kind) ==
    /\ IsDict(v)
    /\ v.tag = "mapping" =>
          \A i \in 1..Len(v.fields) :
              KeyPattern(kind, v.fields[i].key) =>
                  /\ kind # "subsecao"
                  /\ ValidNode(v.fields[i].val, kind)

ValidNode(v, kind) ==
    /\ IsDict(v)
    /\ v.tag = "object" =>
          /\ HasKey(v.fields, "conteudo") =>
                ValidConteudo(Get(v.fields, "conteudo"), kind)
          /\ \A plural \in SchemaProperties(kind) :
                HasKey(v.fields, plural) =>
                    ValidCollection(Get(v.fields, plural), Singular(plural))

\* ConstitutionSchema.validate_data
validate_data(data) ==
    /\ {"preambulo", "titulos", "adct"} \subseteq Keys(data)
    /\ LET v == Get(data, "preambulo")
       IN /\ v.tag = "content"
          /\ \A i \in 1..Len(v.entries) : v.entries[i].classe = "preambulo"
    /\ ValidCollection(Get(data, "titulos"), "titulo")
    /\ LET v == Get(data, "adct")
       IN /\ IsDict(v)
          /\ v.tag = "object" =>
                /\ HasKey(v.fields, "conteudo") =>
                      LET c == Get(v.fields, "conteudo")
                      IN /\ c.tag = "content"
                         /\ \A i \in 1..Len(c.entries) : c.entries[i].classe = "adct"
                /\ HasKey(v.fields, "artigos") =>
                      ValidCollection(Get(v.fields, "artigos"), "artigo")

---------------------------------------------------------------------------
(* src/scraper/src/utils/json_handler.py and                               *)
(* src/scraping/src/scraper/constitution.py: the end of a run of scrape()  *)

\* What json.dump can write: anything but a ConstitutionalElement object.
RECURSIVE Serialisable(_)
Serialisable(v) ==
    /\ v.tag # "element"
    /\ \A i \in 1..Len(v.fields) : Serialisable(v.fields[i].val)

\* JSONHandler.save_json: the file is opened for writing and json.dump
\* writes into it piece by piece; a TypeError of json.dump is not among the
\* exceptions save_json catches.
save_json(data) ==
    IF \A i \in 1..Len(data) : Serialisable(data[i].val)
    THEN [raised |-> FALSE, written |-> "whole"]
    ELSE [raised |-> TRUE, written |-> "partial"]

\* The exceptions a run of scrape() ends with (NoException: none).
NoException == "none"
FetchFailed == "Failed to fetch constitution"
EmptyResult == "Empty processing result"
SchemaFailed == "Schema validation failed"
DumpFailed == "TypeError"

\* The run has not ended.
Running ==
    [done |-> FALSE, returned |-> FALSE, raised |-> NoException,
     validated |-> FALSE, written |-> "nothing"]

\* scrape()'s `return True` and, in its handler of any exception,
\* `return False`: the value the caller gets.
scrape_return(raised) == raised = NoException

\* The run ended: the exception it raised (and caught, and logged), whether
\* validate_data had answered True, and what was written to the output file.
Ended(raised, validated, written) ==
    [done |-> TRUE, returned |-> scrape_return(raised), raised |-> raised,
     validated |-> validated, written |-> written]

\* (a scrape() that hands an empty result to the validator like any other)
scrape_finish_unchecked(result) ==
    IF ~validate_data(result) THEN Ended(SchemaFailed, FALSE, "nothing")
    ELSE LET w == save_json(result)
         IN Ended(IF w.raised THEN DumpFailed ELSE NoException, TRUE, w.written)

\* scrape() from get_result() on.
scrape_finish(result) ==
    IF result = <<>> THEN Ended(EmptyResult, FALSE, "nothing")
    ELSE IF ~validate_data(result) THEN Ended(SchemaFailed, FALSE, "nothing")
    ELSE LET w == save_json(result)
         IN Ended(IF w.raised THEN DumpFailed ELSE NoException, TRUE, w.written)

---------------------------------------------------------------------------
(* src/scraping/src/utils/text_processor.py and data_transformer.py        *)

\* What a call returns: a string, an integer or None.
StrVal(x) == [tag |-> "str", str |-> x, int |-> 0]
IntVal(n) == [tag |-> "int", str |-> <<>>, int |-> n]
NoneVal == [tag |-> "none", str |-> <<>>, int |-> 0]

\* TextProcessor.VALID_ROMAN_PAIRS
VALID_ROMAN_PAIRS(c) ==
    CASE c = "I" -> {"I", "V", "X"}
      [] c = "V" -> {"I"}
      [] c = "X" -> {"I", "V", "X", "L", "C"}
      [] c = "L" -> {"I", "V", "X"}
      [] c = "C" -> {"I", "V", "X", "L", "C", "D", "M"}
      [] c = "D" -> {"I", "V", "X", "L", "C"}
      [] c = "M" -> {"I", "V", "X", "L", "C", "D", "M"}

\* TextProcessor._is_valid_roman_numeral
_is_valid_roman_numeral(numeral) ==
    /\ numeral # <<>>
    /\ \A i \in 1..Len(numeral) : numeral[i] \in RomanChar
    /\ \A i \in 1..(Len(numeral) - 1) :
          numeral[i + 1] \in VALID_ROMAN_PAIRS(numeral[i])

\* `values` of TextProcessor._roman_to_int
values(c) ==
    CASE c = "I" -> 1
      [] c = "V" -> 5
      [] c = "X" -> 10
      [] c = "L" -> 50
      [] c = "C" -> 100
      [] c = "D" -> 500
      [] c = "M" -> 1000

\* The loop of _roman_to_int over reversed(roman), with the characters
\* roman[1..i] still to come.  total is kept as the pair (plus, minus) of
\* what was added and what was subtracted.
RECURSIVE roman_scan(_, _, _, _, _)
roman_scan(roman, i, prev_value, plus, minus) ==
    IF i = 0 THEN [plus |-> plus, minus |-> minus]
    ELSE LET curr_value == values(roman[i])
         IN IF curr_value >= prev_value
            THEN roman_scan(roman, i - 1, curr_value, plus + curr_value, minus)
            ELSE roman_scan(roman, i - 1, curr_value, plus, minus + curr_value)

\* (a conversion that adds every character, never subtracting)
_roman_to_int_additive(roman) ==
    LET t == roman_scan(roman, Len(roman), 0, 0, 0) IN t.plus + t.minus

\* TextProcessor._roman_to_int (the last character is always added, so the
\* total of a string of Roman characters is positive)
_roman_to_int(roman) ==
    LET t == roman_scan(roman, Len(roman), 0, 0, 0) IN t.plus - t.minus

\* ConstitutionTransformer.regex_map_roman: the pattern of a column is
\* KEYWORD\s+([IVXLCDM]+)\s*[-–]?\s* with the column's keyword.
regex_map_roman(col) ==
    CASE col = "titulo"   -> s_TITULO
      [] col = "capitulo" -> s_CAPITULO
      [] col = "secao"    -> s_SECAO
      [] col = "subsecao" -> s_SUBSECAO

\* Where a match of the pattern that starts at text[i] ends (0: no match
\* starts there).  Patterns are compiled with re.IGNORECASE.
pattern_end(keyword, text, i) ==
    LET j  == i + Len(keyword)
        w  == Run(text, j, Space)
        r  == Run(upper(text), j + w, RomanChar)
        k  == j + w + r
        s1 == Run(text, k, Space)
        d  == IF k + s1 <= Len(text) /\ text[k + s1] \in {"-", "--"} THEN 1 ELSE 0
        s2 == IF d = 1 THEN Run(text, k + s1 + 1, Space) ELSE 0
    IN IF /\ j - 1 <= Len(text)
          /\ upper(SubSeq(text, i, j - 1)) = keyword
          /\ w >= 1 /\ r >= 1
       THEN k + s1 + d + s2 - 1
       ELSE 0

\* TextProcessor.search_regex with the pattern of `keyword`: match.group(0)
\* of the first match, None for a blank text or when nothing matches.
search_regex(keyword, text) ==
    IF _clean_text(text) = <<>> THEN NoneVal
    ELSE IF \E i \in 1..Len(text) : pattern_end(keyword, text, i) # 0
    THEN LET i == CHOOSE k \in 1..Len(text) :
                     /\ pattern_end(keyword, text, k) # 0
                     /\ \A m \in 1..(k - 1) : pattern_end(keyword, text, m) = 0
         IN StrVal(SubSeq(text, i, pattern_end(keyword, text, i)))
    ELSE NoneVal

\* re.search(r'[IVXLCDM]+', found.upper()) of extract_roman_number
roman_part(found) == _extract_roman_numeral(upper(found))

\* TextProcessor.extract_roman_number
extract_roman_number(keyword, text) ==
    LET found == search_regex(keyword, text) IN
    IF found.tag = "none" THEN NoneVal
    ELSE IF roman_part(found.str) = None THEN NoneVal
    ELSE IF ~_is_valid_roman_numeral(roman_part(found.str)) THEN found
    ELSE IntVal(_roman_to_int(roman_part(found.str)))

\* ConstitutionTransformer._safe_extract_roman: set(result) raises TypeError
\* for an integer result, and the handler of any exception returns None.
_safe_extract_roman(keyword, text) ==
    LET result == extract_roman_number(keyword, upper(text)) IN
    IF result.tag = "int" /\ result.int # 0 THEN NoneVal
    ELSE IF result.tag = "str" /\ result.str # <<>>
            /\ \E i \in 1..Len(result.str) : result.str[i] \notin RomanChar
    THEN NoneVal
    ELSE result

\* No call made yet.
NoCall ==
    [op |-> "none", pattern |-> "none", valid |-> FALSE, value |-> 0,
     result |-> NoneVal, kept |-> NoneVal]

---------------------------------------------------------------------------
(* Pages: the texts of <p> elements a scraped page is made of.             *)

\* "TI/TULO I"
p_titulo ==
    <<"T", "I/", "T", "U", "L", "O", " ", "I">>
\* "Capi/tulo II"
p_capitulo ==
    <<"C", "a", "p", "i/", "t", "u", "l", "o", " ", "I", "I">>
\* "Art. 1 x"
p_artigo ==
    <<"A", "r", "t", ".", " ", "1", " ", "x">>
\* "SECT 1 x"
p_paragrafo ==
    <<"SECT", " ", "1", " ", "x">>
\* "Para/grafo u/nico. x"
p_unico ==
    <<"P", "a", "r", "a/", "g", "r", "a", "f", "o", " ", "u/", "n", "i", "c", "o", ".", " ", "x">>
\* "I - x"
p_inciso ==
    <<"I", " ", "-", " ", "x">>
\* "a) x"
p_alinea ==
    <<"a", ")", " ", "x">>
\* "ATO DAS DISPOSIC,O~ES CONSTITUCIONAIS TRANSITO/RIAS"
p_adct ==
    <<"A", "T", "O", " ", "D", "A", "S", " ", "D", "I", "S", "P", "O", "S", "I", "C,", "O~", "E", "S", " ", "C", "O", "N", "S", "T", "I", "T", "U", "C", "I", "O", "N", "A", "I", "S", " ", "T", "R", "A", "N", "S", "I", "T", "O/", "R", "I", "A", "S">>
\* " x  y "
p_plain ==
    <<" ", "x", " ", " ", "y", " ">>
\* " "
p_empty ==
    <<" ">>

\* "SUBSEC,A~O I"
p_subsecao ==
    <<"S", "U", "B", "S", "E", "C,", "A~", "O", " ", "I">>
\* "Ti/tulo x"
p_titulo_x ==
    <<"T", "i/", "t", "u", "l", "o", " ", "x">>
\* "Art. 1A x"
p_artigo_A ==
    <<"A", "r", "t", ".", " ", "1", "A", " ", "x">>
\* "SECT 2 u/nico"
p_paragrafo_unico ==
    <<"SECT", " ", "2", " ", "u/", "n", "i", "c", "o">>

\* "Art. x"
p_art_x ==
    <<"A", "r", "t", ".", " ", "x">>

Paragraphs ==
    {p_titulo, p_capitulo, p_artigo, p_paragrafo, p_unico, p_inciso, p_alinea,
     p_adct, p_plain, p_empty, p_subsecao, p_titulo_x, p_artigo_A,
     p_paragrafo_unico, p_art_x}

\* The text of the page's <font face="Arial"> block, None when it has none.
Fonts == {None, p_plain}

Pages == UNION {[1..n -> Paragraphs] : n \in 0..MaxParas}

---------------------------------------------------------------------------
(* Arguments of the text utilities                                         *)

\* One decimal digit d in Roman form, written with the characters for one,
\* five and ten of its place.
RomanDigit(d, one, five, ten) ==
    CASE d = 0 -> <<>>
      [] d \in 1..3 -> [i \in 1..d |-> one]
      [] d = 4 -> <<one, five>>
      [] d = 5 -> <<five>>
      [] d \in 6..8 -> <<five>> \o [i \in 1..(d - 5) |-> one]
      [] d = 9 -> <<one, ten>>

\* The standard form of n.
StandardForm(n) ==
    [i \in 1..(n \div 1000) |-> "M"]
    \o RomanDigit((n \div 100) % 10, "C", "D", "M")
    \o RomanDigit((n \div 10) % 10, "X", "L", "C")
    \o RomanDigit(n % 10, "I", "V", "X")

StandardNumerals == [n \in 1..MaxNumeral |-> StandardForm(n)]

\* "ILC"
n_ILC == <<"I", "L", "C">>

\* The numerals handed to _is_valid_roman_numeral and _roman_to_int.
NumeralArgs == {StandardNumerals[n] : n \in 1..MaxNumeral} \cup {n_ILC}

\* Every string of 1..MaxLen Roman letters.
RomanStrings == UNION {[1..n -> RomanChar] : n \in 1..MaxLen}

\* "SEC,A~O IC"
t_secao_IC == s_SECAO \o <<" ", "I", "C">>
\* "Sec,a~o ic - x"
t_secao_ic == <<"S", "e", "c,", "a~", "o", " ", "i", "c", " ", "-", " ", "x">>
\* "SEC,A~O IV -- x"
t_secao_IV == s_SECAO \o <<" ", "I", "V", " ", "--", " ", "x">>
\* "SUBSEC,A~O IL"
t_subsecao_IL == s_SUBSECAO \o <<" ", "I", "L">>
\* "TI/TULO IC"
t_titulo_IC == s_TITULO \o <<" ", "I", "C">>
\* "CAPI/TULO  II"
t_capitulo_II == s_CAPITULO \o <<" ", " ", "I", "I">>
\* "SEC,A~O x"
t_secao_x == s_SECAO \o <<" ", "x">>

\* The paragraph texts handed to the extraction.
TextArgs ==
    {t_secao_IC, t_secao_ic, t_secao_IV, t_subsecao_IL, t_titulo_IC,
     t_capitulo_II, t_secao_x, p_plain, p_empty}

Columns == {"titulo", "capitulo", "secao", "subsecao"}

---------------------------------------------------------------------------
(* src/scraping/src/utils/http_client.py and ConstitutionScraper._fetch_html *)

\* Bound on ConstitutionScraper.max_retries.
MaxRetries == 3

\* max_tries of the backoff.on_exception decorator of AsyncHTTPClient.get
max_tries == 5

\* The exception classes the decorator of get retries on.
RetryOn ==
    {"TimeoutError", "ClientError", "ConnectionError", "ServerDisconnectedError"}

\* What one request self._session.get(...) does: it answers with a body
\* (the decoded text, possibly empty), or raises.
html_page == <<"<", "p", ">">>
Bodies == {<<>>, html_page}
RequestErrors ==
    {"TimeoutError", "ClientError", "ConnectionError", "TooManyRedirects"}
Answer(body) == [ok |-> TRUE, body |-> body, error |-> "none"]
Failure(error) == [ok |-> FALSE, body |-> None, error |-> error]
Requests == {Answer(b) : b \in Bodies} \cup {Failure(e) : e \in RequestErrors}

\* The body of AsyncHTTPClient.get on one request o: the text it returns,
\* or the exception it raises.  Each except clause of get, the last one
\* `except Exception`, raises HTTPClientError from what the request raised.
get_body(o) ==
    IF o.ok
    THEN [raised |-> "none", cause |-> "none", value |-> o.body]
    ELSE [raised |-> "HTTPClientError", cause |-> o.error, value |-> None]

\* backoff.on_exception(expo, RetryOn, max_tries=5) after the n-th try of
\* get ended as r: the value is returned, the call is tried again, or the
\* exception goes to the caller.
on_exception(r, n) ==
    IF r.raised = "none" THEN "return"
    ELSE IF r.raised \in RetryOn /\ n < max_tries THEN "retry"
    ELSE "raise"

\* _fetch_html has not ended.
Fetching == [done |-> FALSE, raised |-> "none", value |-> None]
FetchReturned(value) == [done |-> TRUE, raised |-> "none", value |-> value]
FetchRaised(message) ==
    [done |-> TRUE, raised |-> "ConstitutionScraperError", value |-> message]

\* The body of the loop of _fetch_html once client.get ended as r in round
\* att of mr: the round the loop is in next, and how the function ended.
_fetch_html(att, mr, r) ==
    IF r.raised = "none"
    THEN IF r.value = <<>>
         THEN [attempt |-> att, fetched |-> FetchRaised("Empty response received")]
         ELSE [attempt |-> att, fetched |-> FetchReturned(r.value)]
    ELSE IF att = mr - 1
         THEN [attempt |-> att, fetched |-> FetchRaised(FetchFailed)]
         ELSE [attempt |-> att + 1, fetched |-> Fetching]

---------------------------------------------------------------------------
(* Actions                                                                 *)

\* ConstitutionProcessor.__init__ (scraping)
InitScraping ==
    /\ heap = <<ConstitutionalElement("PREAMBULO", None, None),
                ConstitutionalElement("ADCT", None, None)>>
    /\ current_structure = <<>>

\* ConstitutionProcessor.__init__ (scraper)
InitScraper ==
    /\ lheap = <<scraper_ConstitutionalElement("PREAMBULO", None, None, None)>>
    /\ lroot = 1
    /\ lcurrent = [t \in ScraperTypes |-> 0]
    /\ processed_elements = {}

\* The type strings handed to process_element: the names of the kinds and a
\* label that names none.
Unrecognized == "EMENTA"
Labels == StructureTypes \cup {Unrecognized}

\* One call processor.process_element(type_str, number, None, text), as the
\* loop of scrape() makes it: an exception the call raises is caught there,
\* logged, and the loop goes on.  The title is stored on the element and
\* read by nothing in this variant.
ProcessElement(type_str, number) ==
    /\ variant = "scraping"
    /\ calls < MaxCalls
    /\ LET r == process_element(heap, current_structure, type_str, number,
                                None, TextOf(calls + 1))
       IN /\ heap' = r.heap
          /\ current_structure' = r.cs
    /\ history' = Append(history, [type |-> type_str, number |-> number,
                                   text |-> TextOf(calls + 1)])
    /\ calls' = calls + 1
    /\ UNCHANGED <<variant, scraperVars, pageVars, pos, outcome, callVars,
                   fetchVars>>

\* One call processor.process_element(type_str, number, None, text) of the
\* list-based variant.
ScraperProcessElement(type_str, number) ==
    /\ variant = "scraper"
    /\ calls < MaxCalls
    /\ LET r == scraper_process_element(
                    [heap |-> lheap, root |-> lroot, cur |-> lcurrent,
                     processed |-> processed_elements],
                    type_str, number, None, TextOf(calls + 1))
       IN /\ lheap' = r.heap
          /\ lroot' = r.root
          /\ lcurrent' = r.cur
          /\ processed_elements' = r.processed
    /\ history' = Append(history, [type |-> type_str, number |-> number,
                                   text |-> TextOf(calls + 1)])
    /\ calls' = calls + 1
    /\ UNCHANGED <<variant, scrapingVars, pageVars, pos, outcome, callVars,
                   fetchVars>>

NextScraping ==
    \E t \in Labels, n \in Numbers :
        /\ (t \in {"PREAMBULO", "ADCT", Unrecognized} => n = None)
        /\ ProcessElement(t, n)

\* "ADCT" names no StructureType of the list-based variant.
NextScraper ==
    \E t \in Labels, n \in Numbers :
        /\ (t \in {"PREAMBULO", "ADCT", Unrecognized} => n = None)
        /\ ScraperProcessElement(t, n)

\* Nothing has run.
InitBuilders ==
    /\ calls = 0
    /\ history = <<>>
    /\ pos = 0
    /\ outcome = Running
    /\ InitScraping
    /\ InitScraper

\* _fetch_html is not running.
NoFetch ==
    /\ max_retries = 0
    /\ attempt = 0
    /\ tries = 0
    /\ gets = <<>>
    /\ fetched = Fetching

InitCommon ==
    /\ InitBuilders
    /\ arg = None
    /\ ret = NoCall
    /\ NoFetch

\* No page is involved when process_element is called directly.
NoPage == font = None /\ doc = <<>>

\* The tuples stage k of iter_constitutional_elements yields: stage 0 is
\* _process_preambulo, stage k the k-th <p> of soup.find_all('p').
StageYield(f, d, k) ==
    IF k = 0 THEN _process_preambulo(f)
    ELSE _process_paragraph(d[k], IF k < Len(d) THEN d[k + 1] ELSE None)

\* The body of scrape()'s loop for the tuples ys of one stage (none or one).
ProcessYield(ys) ==
    IF ys = <<>>
    THEN UNCHANGED <<heap, current_structure, history, calls>>
    ELSE LET r == process_element(heap, current_structure, ys[1].type,
                                  ys[1].number, ys[1].title, ys[1].text)
         IN /\ heap' = r.heap
            /\ current_structure' = r.cs
            /\ history' = Append(history, [type |-> ys[1].type,
                                           number |-> ys[1].number,
                                           text |-> ys[1].text])
            /\ calls' = calls + 1

\* ConstitutionScraper.scrape, first stage: the preamble block.
IteratePreambulo ==
    /\ variant = "scrape"
    /\ pos = 0
    /\ ~outcome.done
    /\ ProcessYield(StageYield(font, doc, 0))
    /\ pos' = 1
    /\ UNCHANGED <<variant, scraperVars, pageVars, outcome, callVars,
                   fetchVars>>

\* ConstitutionScraper.scrape, the next <p> of the page.
IterateParagraph ==
    /\ variant = "scrape"
    /\ pos \in 1..Len(doc)
    /\ ~outcome.done
    /\ ProcessYield(StageYield(font, doc, pos))
    /\ pos' = pos + 1
    /\ UNCHANGED <<variant, scraperVars, pageVars, outcome, callVars,
                   fetchVars>>

\* ConstitutionScraper.scrape: _fetch_html raises (every attempt failed, or
\* the response was empty) and the run ends before a page is parsed.
FetchFailure ==
    /\ variant = "scrape"
    /\ pos = 0
    /\ ~outcome.done
    /\ outcome' = Ended(FetchFailed, FALSE, "nothing")
    /\ UNCHANGED <<variant, calls, history, scrapingVars, scraperVars,
                   pageVars, pos, callVars,
                   fetchVars>>

\* ConstitutionScraper.scrape, after the loop: get_result, the two checks,
\* save_json.
Finish ==
    /\ variant = "scrape"
    /\ pos = Len(doc) + 1
    /\ ~outcome.done
    /\ outcome' = scrape_finish(get_result(heap))
    /\ UNCHANGED <<variant, calls, history, scrapingVars, scraperVars,
                   pageVars, pos, callVars,
                   fetchVars>>

\* One call of the conversion: TextProcessor._is_valid_roman_numeral(arg)
\* and TextProcessor._roman_to_int(arg).
RomanToInt ==
    /\ variant = "text"
    /\ ret.op = "none"
    /\ arg \in NumeralArgs \cup RomanStrings
    /\ ret' = [NoCall EXCEPT !.op = "_roman_to_int",
                             !.valid = _is_valid_roman_numeral(arg),
                             !.value = _roman_to_int(arg)]
    /\ UNCHANGED <<variant, calls, history, scrapingVars, scraperVars,
                   pageVars, pos, outcome, arg,
                   fetchVars>>

\* One extraction with the pattern of column col:
\* TextProcessor.extract_roman_number(pattern, arg), and what its caller
\* ConstitutionTransformer._safe_extract_roman(pattern, arg) keeps.
ExtractRoman(col) ==
    /\ variant = "text"
    /\ ret.op = "none"
    /\ arg \in TextArgs
    /\ ret' = [NoCall EXCEPT
                 !.op = "extract_roman_number",
                 !.pattern = col,
                 !.result = extract_roman_number(regex_map_roman(col), arg),
                 !.kept = _safe_extract_roman(regex_map_roman(col), arg)]
    /\ UNCHANGED <<variant, calls, history, scrapingVars, scraperVars,
                   pageVars, pos, outcome, arg,
                   fetchVars>>

\* Either variant, driven through process_element.
Init == variant \in {"scraping", "scraper"} /\ InitCommon /\ NoPage
Next == NextScraping \/ NextScraper
Spec == Init /\ [][Next]_vars

\* The dict-based builder alone.
InitDict == variant = "scraping" /\ InitCommon /\ NoPage
SpecScraping == InitDict /\ [][NextScraping]_vars

\* The list-based builder alone.
InitList == variant = "scraper" /\ InitCommon /\ NoPage
SpecScraper == InitList /\ [][NextScraper]_vars

\* scrape() of the scraping variant on a page: classify, then build.
InitScrape ==
    /\ variant = "scrape"
    /\ InitCommon
    /\ font \in Fonts
    /\ doc \in Pages
\* The text utilities, one call on one argument.
InitText ==
    /\ variant = "text"
    /\ InitBuilders
    /\ NoPage
    /\ arg \in NumeralArgs \cup TextArgs
    /\ ret = NoCall
    /\ NoFetch
NextText == RomanToInt \/ \E col \in Columns : ExtractRoman(col)
SpecText == InitText /\ [][NextText]_vars

NextScrape == FetchFailure \/ IteratePreambulo \/ IterateParagraph \/ Finish
SpecScrape == InitScrape /\ [][NextScrape]_vars

\* The numbers the classifier gives the paragraphs of an article: digits,
\* or the literal of the single paragraph.
ArticleNumbers == {<<"1">>, <<"2">>, s_unico}

\* process_element called with the articles and paragraphs of a document
\* (an article's number is digits).
NextArtigo ==
    \E t \in {"ARTIGO", "PARAGRAFO"}, n \in ArticleNumbers :
        /\ (t = "ARTIGO" => n # s_unico)
        /\ ProcessElement(t, n)

\* The dict-based builder fed articles and their paragraphs.
SpecArtigo == InitDict /\ [][NextArtigo]_vars

\* One request of a run of _fetch_html, with what follows it up to the next
\* request: the decorator of get retries or lets the call end, and when the
\* call has ended the loop of _fetch_html returns, raises or goes on.
Request(o) ==
    /\ variant = "fetch"
    /\ ~fetched.done
    /\ attempt < max_retries
    /\ LET r == get_body(o)
           n == tries + 1
       IN IF on_exception(r, n) = "retry"
          THEN /\ tries' = n
               /\ UNCHANGED <<attempt, gets, fetched>>
          ELSE LET f == _fetch_html(attempt, max_retries, r)
               IN /\ tries' = 0
                  /\ gets' = Append(gets, [tries |-> n, raised |-> r.raised,
                                           cause |-> r.cause])
                  /\ attempt' = f.attempt
                  /\ fetched' = f.fetched
    /\ UNCHANGED <<variant, calls, history, scrapingVars, scraperVars,
                   pageVars, pos, outcome, callVars, max_retries>>

\* `for attempt in range(self.max_retries)` has no round left: the function
\* body ends, and the call returns None.
LoopExhausted ==
    /\ variant = "fetch"
    /\ ~fetched.done
    /\ attempt >= max_retries
    /\ fetched' = FetchReturned(None)
    /\ UNCHANGED <<variant, calls, history, scrapingVars, scraperVars,
                   pageVars, pos, outcome, callVars, max_retries, attempt,
                   tries, gets>>

\* A run of ConstitutionScraper._fetch_html.
InitFetch ==
    /\ variant = "fetch"
    /\ InitBuilders
    /\ NoPage
    /\ arg = None
    /\ ret = NoCall
    /\ max_retries \in 0..MaxRetries
    /\ attempt = 0
    /\ tries = 0
    /\ gets = <<>>
    /\ fetched = Fetching
NextFetch == LoopExhausted \/ \E o \in Requests : Request(o)
SpecFetch == InitFetch /\ [][NextFetch]_vars

\* The conversion, one call on one string of Roman letters.
InitRoman ==
    /\ variant = "text"
    /\ InitBuilders
    /\ NoPage
    /\ arg \in RomanStrings
    /\ ret = NoCall
    /\ NoFetch
NextRoman == RomanToInt
SpecRoman == InitRoman /\ [][NextRoman]_vars

---------------------------------------------------------------------------
(* Properties                                                              *)

\* The rank ladder of the element kinds; Transitional (ADCT) shares rank 1.
Rank(k) ==
    CASE k = "PREAMBULO" -> 0
      [] k = "TITULO"    -> 1
      [] k = "CAPITULO"  -> 2
      [] k = "SECAO"     -> 3
      [] k = "SUBSECAO"  -> 4
      [] k = "ARTIGO"    -> 5
      [] k = "PARAGRAFO" -> 6
      [] k = "INCISO"    -> 7
      [] k = "ALINEA"    -> 8
      [] k = "ADCT"      -> 1

PluralKeys == {"titulos", "capitulos", "secoes", "subsecoes",
               "artigos", "paragrafos", "incisos", "alineas"}

\* The elements object p of the dict-based heap h holds as children.
ChildrenOf(h, p) ==
    UNION {IF h[p].children[i].isdict
           THEN {h[p].children[i].items[j].el : j \in 1..Len(h[p].children[i].items)}
           ELSE {h[p].children[i].el} : i \in 1..Len(h[p].children)}

\* The elements object p of the list-based heap h holds as children.
ListChildrenOf(h, p) == {h[p].children[i] : i \in 1..Len(h[p].children)}

KeySeq(d) == [i \in 1..Len(d) |-> d[i].key]
IsPrefix(s, t) == Len(s) <= Len(t) /\ \A i \in 1..Len(s) : s[i] = t[i]

\* The tuple the current step passes to process_element.
Called == Len(history') = Len(history) + 1
Tuple == history'[Len(history')]
Structural(t) == t \in StructureTypes \ {"PREAMBULO", "ADCT"}

\* The open slot of greatest rank strictly below r, or the root.
ExpectedParent(cs, r) ==
    LET open == {i \in 1..Len(cs) : Rank(cs[i].t) < r}
    IN IF open = {} THEN root
       ELSE cs[CHOOSE i \in open : \A j \in open : Rank(cs[j].t) <= Rank(cs[i].t)].e

\* C1: in the tree of either builder every parent-to-child edge goes to a
\* strictly greater rank, and the list-based builder's validate_structure()
\* returns True.
C1_RankInvariant ==
    /\ \A p \in 1..Len(heap) : \A c \in ChildrenOf(heap, p) :
           Rank(heap[c].type) > Rank(heap[p].type)
    /\ \A p \in 1..Len(lheap) : \A c \in ListChildrenOf(lheap, p) :
           Rank(lheap[c].type) > Rank(lheap[p].type)
    /\ validate_structure

\* C1 witness: the list-based builder has placed a supplied Article under a
\* Subsection that hangs, through the whole ladder, from the root (and the
\* dict-based one, in its runs, a Paragraph under an Article).
C1_Witness ==
    /\ variant = "scraper"
    /\ calls = MaxCalls
    /\ \E a \in 1..Len(lheap) :
          /\ lheap[a].type = "ARTIGO" /\ lheap[a].number # None
          /\ lheap[a].parent # 0
          /\ lheap[lheap[a].parent].type = "SUBSECAO"
          /\ \E c \in ListChildrenOf(lheap, a) : lheap[c].type = "PARAGRAFO"
    /\ ListChildrenOf(lheap, lroot) # {}

\* C2: a tuple whose kind and number already exist under the parent it goes
\* to leaves that parent's children as they were: one child under the key,
\* the element of the first tuple, itself untouched.
C2_FirstOccurrenceWins ==
    [][\A p \in 1..Len(heap) : \A i \in 1..Len(heap[p].children) :
          \A j \in 1..Len(heap[p].children[i].items) :
             LET e0 == heap[p].children[i].items[j].el IN
             ( /\ variant = "scraping"
               /\ Called /\ Structural(Tuple.type)
               /\ Tuple.type = heap[e0].type
               /\ Tuple.number = heap[e0].number
               /\ p = ExpectedParent(current_structure, Rank(Tuple.type)) )
             => /\ heap'[p].children[i].items = heap[p].children[i].items
                /\ heap'[e0] = heap[e0]]_vars

\* The deepest open element: the slot of greatest rank, the root when no
\* slot is open.
DeepestOpen ==
    IF current_structure = <<>> THEN root
    ELSE current_structure[
             CHOOSE i \in 1..Len(current_structure) :
                 \A j \in 1..Len(current_structure) :
                     Rank(current_structure[j].t) <= Rank(current_structure[i].t)].e

\* The <p> the last stage consumed, and its next sibling.
LastParagraph == doc[pos - 1]
LastSibling == IF pos - 1 < Len(doc) THEN doc[pos] ELSE None

\* C3: when the paragraph just consumed is not empty and matches no
\* classification rule, its text is the last content entry of the deepest
\* open element (of the root when no slot is open).
C3_ContinuationAttachment ==
    ( /\ variant = "scrape"
      /\ pos >= 2
      /\ _clean_text(LastParagraph) # <<>>
      /\ \A i \in 1..9 :
            ~element_checks(_clean_text(LastParagraph), LastSibling)[i].r.found )
    => /\ heap[DeepestOpen].content # <<>>
       /\ heap[DeepestOpen].content[Len(heap[DeepestOpen].content)].texto
             = _clean_text(LastParagraph)

\* Whether the serialised result r holds adct.artigos[n].
HasAdctArtigo(r, n) ==
    /\ HasKey(r, "adct")
    /\ HasKey(Get(r, "adct").fields, "artigos")
    /\ HasKey(Get(Get(r, "adct").fields, "artigos").fields, n)

\* C4: every Article n processed after a Transitional banner is found at
\* get_result()["adct"]["artigos"][n].
C4_TransitionalPlacement ==
    variant = "scraping" =>
    \A i \in 1..Len(history) : \A j \in 1..Len(history) :
        ( /\ i < j
          /\ history[i].type = "ADCT"
          /\ history[j].type = "ARTIGO"
          /\ history[j].number # None )
        => HasAdctArtigo(get_result(heap), history[j].number)

\* Every element tuple processed so far carried a number.
AllNumbered ==
    \A i \in 1..Len(history) :
        Structural(history[i].type) => history[i].number # None

BannerSeen == \E i \in 1..Len(history) : history[i].type = "ADCT"
FirstBanner == CHOOSE i \in 1..Len(history) :
                  /\ history[i].type = "ADCT"
                  /\ \A j \in 1..(i - 1) : history[j].type # "ADCT"
\* The elements created before the first banner: the main branch.
MainElements ==
    {2 + k : k \in 1..Cardinality({j \in 1..(FirstBanner - 1) :
                                      Structural(history[j].type)})}

\* C5: once the banner has been processed no call changes the main branch:
\* the main root's children and every main-branch element stay as they are.
C5_BranchIndependence ==
    [][(variant = "scraping" /\ BannerSeen) =>
          /\ heap'[root].children = heap[root].children
          /\ \A e \in MainElements : heap'[e] = heap[e]]_vars

\* C6, per call: only the tuple's own element is created; whatever holds it
\* as a child is the open slot of greatest rank below its own (the root when
\* there is none); an Article arriving while only a Title is open becomes a
\* child of that Title.
C6_Step ==
    Called =>
       IF ~Structural(Tuple.type) THEN Len(heap') = Len(heap)
       ELSE LET E == Len(heap')
                P == ExpectedParent(current_structure, Rank(Tuple.type))
            IN /\ Len(heap') = Len(heap) + 1
               /\ heap'[E].type = Tuple.type
               /\ heap'[E].number = Tuple.number
               /\ \A q \in 1..Len(heap') : E \in ChildrenOf(heap', q) => q = P
               /\ ( /\ Tuple.type = "ARTIGO"
                    /\ Len(current_structure) = 1
                    /\ current_structure[1].t = "TITULO" )
                  => E \in ChildrenOf(heap', current_structure[1].e)
               /\ current_structure = <<>> => E \in ChildrenOf(heap', root)

ProjectionFollowsTree(h, p) ==
    \A i \in 1..Len(h[p].children) :
        LET c == h[p].children[i] IN
        (c.isdict /\ c.items # <<>>) =>
            /\ HasKey(to_dict(h, p), c.key)
            /\ KeySeq(Get(to_dict(h, p), c.key).fields) = KeySeq(c.items)

\* The Title of "Chapter II, then Chapter I under one Title".
ChaptersIIthenI ==
    /\ Len(history) = 3
    /\ history[1].type = "TITULO"
    /\ history[2] = [type |-> "CAPITULO", number |-> <<"I", "I">>, text |-> TextOf(2)]
    /\ history[3] = [type |-> "CAPITULO", number |-> <<"I">>, text |-> TextOf(3)]

C7_State ==
    variant = "scraping" =>
       /\ \A p \in 1..Len(heap) : ProjectionFollowsTree(heap, p)
       /\ ChaptersIIthenI =>
             /\ KeySeq(heap[3].children[1].items) = <<<<"I", "I">>, <<"I">>>>
             /\ KeySeq(Get(to_dict(heap, 3), "capitulos").fields) = <<<<"I", "I">>, <<"I">>>>

C7_Step ==
    variant = "scraping" =>
       \A p \in 1..Len(heap) : \A i \in 1..Len(heap[p].children) :
          /\ Len(heap'[p].children) >= i
          /\ heap'[p].children[i].key = heap[p].children[i].key
          /\ (heap[p].children[i].isdict /\ heap'[p].children[i].isdict)
             => IsPrefix(KeySeq(heap[p].children[i].items),
                         KeySeq(heap'[p].children[i].items))

\* C7: a parent's children stand, in the tree and in its to_dict()
\* projection, in the order of their first insertion: a call only ever adds
\* a key at the end, and Chapter "II" then Chapter "I" gives ["II", "I"].
C7_InsertionOrder == []C7_State /\ [][C7_Step]_vars

\* C7 witness: Chapter "II" was fed before Chapter "I" under one Title.
C7_Witness ==
    /\ variant = "scraping"
    /\ ChaptersIIthenI
    /\ KeySeq(heap[3].children[1].items) = <<<<"I", "I">>, <<"I">>>>

\* C8: what was inserted under a parent stays there under its key, and
\* every content sequence only grows (stated for the streams in which every
\* element carries a number).
C8_AppendOnly ==
    [][(variant = "scraping" /\ AllNumbered') =>
        \A p \in 1..Len(heap) :
           /\ IsPrefix(heap[p].content, heap'[p].content)
           /\ \A i \in 1..Len(heap[p].children) :
                 /\ Len(heap'[p].children) >= i
                 /\ heap'[p].children[i].key = heap[p].children[i].key
                 /\ heap'[p].children[i].isdict = heap[p].children[i].isdict
                 /\ heap'[p].children[i].el = heap[p].children[i].el
                 /\ IsPrefix(heap[p].children[i].items,
                             heap'[p].children[i].items)]_vars

\* Every value under a plural key, at every depth of the serialised dict d,
\* is a mapping from number to a projected child.
RECURSIVE WellProjected(_)
WellProjected(d) ==
    \A i \in 1..Len(d) :
        /\ d[i].key \in PluralKeys =>
              /\ d[i].val.tag = "mapping"
              /\ \A j \in 1..Len(d[i].val.fields) :
                    /\ d[i].val.fields[j].val.tag = "object"
                    /\ WellProjected(d[i].val.fields[j].val.fields)
        /\ d[i].val.tag = "object" => WellProjected(d[i].val.fields)

\* C9: get_result() holds projections, never element objects, under every
\* plural key, the top level included (stated for the streams in which
\* every element carries a number).
C9_SerializerProjection ==
    (variant = "scraping" /\ AllNumbered) => WellProjected(get_result(heap))

\* C10: after at least one tuple, get_result() has the keys preambulo,
\* titulos and adct.
C10_RequiredKeys ==
    (variant = "scraping" /\ calls >= 1)
    => {"preambulo", "titulos", "adct"} \subseteq Keys(get_result(heap))

\* C11: a run in which the classifier yielded no tuple ends in failure:
\* scrape() returns False, validate_data never answered True and nothing
\* was written to the output file.
C11_EmptyInputFatal ==
    (variant = "scrape" /\ outcome.done /\ history = <<>>)
    => /\ outcome.returned = FALSE
       /\ ~outcome.validated
       /\ outcome.written = "nothing"

\* C11 witness: a page of two paragraphs, none of them classified, was
\* fetched and read to its end, and the run ended on the empty result.
C11_Witness ==
    /\ variant = "scrape"
    /\ Len(doc) = 2 /\ pos = 3
    /\ history = <<>>
    /\ outcome.done
    /\ outcome.raised = EmptyResult
    /\ outcome.returned = FALSE

C13_UnrecognizedLabel ==
    [][( /\ variant = "scraping"
         /\ Called
         /\ Tuple.type \notin StructureTypes )
       => /\ Len(heap'[DeepestOpen].content) = Len(heap[DeepestOpen].content) + 1
          /\ heap'[DeepestOpen].content[Len(heap'[DeepestOpen].content)].texto
                = Tuple.text]_vars

\* C14: for every standard-form numeral of a value n in 1..MaxNumeral the
\* validation answers True and the conversion returns n (IV = 4, IX = 9,
\* XL = 40, MCMXCIX = 1999 among them), and the validation rejects "ILC".
C14_RomanConversion ==
    (variant = "text" /\ ret.op = "_roman_to_int") =>
       /\ arg # n_ILC =>
             /\ ret.valid
             /\ ret.value \in 1..MaxNumeral
             /\ StandardNumerals[ret.value] = arg
       /\ arg = <<"I", "V">> => ret.value = 4
       /\ arg = <<"I", "X">> => ret.value = 9
       /\ arg = <<"X", "L">> => ret.value = 40
       /\ arg = <<"M", "C", "M", "X", "C", "I", "X">> => ret.value = 1999
       /\ arg = n_ILC => ~ret.valid

\* C14 witness: MCMXCIX was validated and converted to 1999.
C14_Witness ==
    /\ variant = "text"
    /\ arg = <<"M", "C", "M", "X", "C", "I", "X">>
    /\ ret.op = "_roman_to_int"
    /\ ret.valid
    /\ ret.value = 1999

\* The match the extraction of the last call started from.
Found == search_regex(regex_map_roman(ret.pattern), arg)

\* C15: when the numeral in the match fails the validation,
\* extract_roman_number returns the raw matched string (no integer, not
\* None), and its caller _safe_extract_roman keeps that raw string.
C15_InvalidNumeralKept ==
    ( /\ variant = "text"
      /\ ret.op = "extract_roman_number"
      /\ Found.tag = "str"
      /\ ~_is_valid_roman_numeral(roman_part(Found.str)) )
    => /\ ret.result = Found
       /\ ret.kept.tag = "str"
       /\ ret.kept.str = upper(Found.str)

\* The step reads the next <p> of the page: doc[pos], with the sibling
\* after it.
ReadsParagraph == variant = "scrape" /\ pos >= 1 /\ pos' = pos + 1
ThisText == _clean_text(doc[pos])
NextSibling == IF pos < Len(doc) THEN doc[pos + 1] ELSE None

\* The rules in their fixed order, and the answer of the check of a rule
\* alone.
RuleOrder ==
    <<"ADCT", "TITULO", "CAPITULO", "SECAO", "SUBSECAO",
      "ARTIGO", "PARAGRAFO", "INCISO", "ALINEA">>
CheckOf(kind, text, next_p) ==
    CASE kind = "ADCT"      -> _check_adct(text)
      [] kind = "TITULO"    -> _check_structural_element(text, next_p, s_TITULO)
      [] kind = "CAPITULO"  -> _check_structural_element(text, next_p, s_CAPITULO)
      [] kind = "SECAO"     -> _check_structural_element(text, next_p, s_SECAO)
      [] kind = "SUBSECAO"  -> _check_structural_element(text, next_p, s_SUBSECAO)
      [] kind = "ARTIGO"    -> _check_artigo(text)
      [] kind = "PARAGRAFO" -> _check_paragrafo(text)
      [] kind = "INCISO"    -> _check_inciso(text)
      [] kind = "ALINEA"    -> _check_alinea(text)
Matching(text, next_p) ==
    {i \in 1..Len(RuleOrder) : CheckOf(RuleOrder[i], text, next_p).found}

\* C16: a paragraph gives at most one tuple; when its text is not empty and
\* some rule matches it, the tuple has the kind, and the number, of the
\* first rule of the fixed order that matches; otherwise it gives none.
C16_FirstMatchWins ==
    [][ReadsParagraph =>
          LET text == ThisText
              m    == Matching(text, NextSibling)
          IN
          /\ Len(history') <= Len(history) + 1
          /\ IF text # <<>> /\ m # {}
             THEN LET first == CHOOSE i \in m : \A j \in m : i <= j
                  IN /\ Called
                     /\ Tuple.type = RuleOrder[first]
                     /\ Tuple.number =
                           CheckOf(RuleOrder[first], text, NextSibling).number
                     /\ Tuple.text = text
             ELSE ~Called]_vars

\* C16 witness: "SUBSEC,A~O I", which the Section rule and the Subsection
\* rule both match, was read first and gave one tuple.
C16_Witness ==
    /\ variant = "scrape"
    /\ pos = 2
    /\ doc[1] = p_subsecao
    /\ Cardinality(Matching(_clean_text(doc[1]), None)) = 2
    /\ Len(history) = 1
    /\ history[1].type = "SECAO"

\* The text is a header of the form "<KEYWORD> <roman numeral>": the
\* keyword kw, one space, then Roman letters to the end.
HeaderForm(text, kw) ==
    /\ startswith(upper(text), kw)
    /\ Len(text) >= Len(kw) + 2
    /\ text[Len(kw) + 1] = " "
    /\ \A i \in (Len(kw) + 2)..Len(text) : text[i] \in RomanChar
NumeralAfter(text, kw) == SubSeq(text, Len(kw) + 2, Len(text))
HeaderKeywords == {s_TITULO, s_CAPITULO, s_SECAO, s_SUBSECAO}

\* C17: a header paragraph "<KEYWORD> <roman numeral>" gives a tuple whose
\* number is exactly the numeral that follows the keyword, not letters of
\* the keyword.
C17_HeaderNumber ==
    [][ReadsParagraph =>
          \A kw \in HeaderKeywords :
              HeaderForm(ThisText, kw) =>
                  /\ Called
                  /\ Tuple.number = NumeralAfter(ThisText, kw)]_vars

\* A text looks like a structural header, the transitional banner or an
\* article marker when it holds the word that marks one, in either case.
HeaderTypes == {"TITULO", "CAPITULO", "SECAO", "SUBSECAO"}
LooksLikeHeader(text) == \E kw \in HeaderKeywords : contains(upper(text), kw)
LooksLikeBanner(text) == contains(upper(text), s_ATO_DAS_DISPOSICOES)
LooksLikeArticle(text) == contains(upper(text), s_ART)
\* The title the lookahead may take from the next paragraph nxt.
Lookahead(nxt) ==
    LET t == IF nxt = None THEN <<>> ELSE _clean_text(nxt)
    IN IF /\ nxt # None
          /\ t # <<>>
          /\ ~LooksLikeHeader(t)
          /\ ~LooksLikeBanner(t)
          /\ ~LooksLikeArticle(t)
       THEN t ELSE None

AsciiUpper26 == {UpperChars[i] : i \in 1..26}
ArticleDesignation(text) ==
    LET j      == 5 + Run(text, 5, Space)
        k      == j + Run(text, j, Digit)
        letter == /\ k <= Len(text)
                  /\ text[k] \in AsciiUpper26
                  /\ (k = Len(text) \/ text[k + 1] \notin AsciiUpper26 \cup AsciiLower)
    IN SubSeq(text, j, k - 1) \o (IF letter THEN <<text[k]>> ELSE <<>>)

\* C19: the number of an Article tuple is the digits after "Art." together
\* with the single letter that follows them when one is present.
C19_ArticleNumber ==
    [][(ReadsParagraph /\ Called /\ Tuple.type = "ARTIGO") =>
          Tuple.number = ArticleDesignation(ThisText)]_vars

\* The digits after the leading paragraph sign of text.
SignNumber(text) ==
    LET j == 2 + Run(text, 2, Space)
    IN SubSeq(text, j, j + Run(text, j, Digit) - 1)

\* C20: a Paragraph tuple has the number "u/nico" only when its text begins
\* with "Para/grafo u/nico"; a text beginning with the paragraph sign and a
\* number n has the number n, whatever follows.
C20_ParagraphNumber ==
    [][(ReadsParagraph /\ Called /\ Tuple.type = "PARAGRAFO") =>
          /\ Tuple.number = s_unico =>
                startswith(lower(ThisText), s_paragrafo \o <<" ">> \o s_unico)
          /\ ParagraphMatchAt(ThisText, 1) =>
                Tuple.number = SignNumber(ThisText)]_vars

\* The objects of the dict-based heap h reachable from p through children.
RECURSIVE Descendants(_, _)
Descendants(h, p) ==
    {p} \cup UNION {Descendants(h, c) : c \in ChildrenOf(h, p)}
InTree(h) == Descendants(h, root) \cup Descendants(h, adct)

\* The numbers under which object a of heap h holds Paragraph children.
ParagraphKeys(h, a) ==
    UNION {IF h[a].children[i].key = "paragrafos" /\ h[a].children[i].isdict
           THEN {h[a].children[i].items[j].key :
                     j \in 1..Len(h[a].children[i].items)}
           ELSE {} : i \in 1..Len(h[a].children)}
IsNumeric(n) == n # None /\ n # <<>> /\ \A i \in 1..Len(n) : n[i] \in Digit

\* C21: in the tree of the dict-based builder no Article has both a
\* Paragraph child numbered "u/nico" and a Paragraph child with a numeric
\* number.
C21_UnicoExclusivity ==
    \A a \in InTree(heap) :
        heap[a].type = "ARTIGO" =>
            ~( /\ s_unico \in ParagraphKeys(heap, a)
               /\ \E n \in ParagraphKeys(heap, a) : IsNumeric(n) )

\* C22: when a request of get fails with a timeout or a client or
\* connection error, get tries again, up to 5 tries, and HTTPClientError
\* reaches the caller of get only after every try has failed.
C22_GetRetries ==
    \A i \in 1..Len(gets) :
        ( /\ gets[i].raised = "HTTPClientError"
          /\ gets[i].cause \in {"TimeoutError", "ClientError", "ConnectionError"} )
        => gets[i].tries = max_tries

\* The step is a call of the list-based process_element with a tuple of a
\* kind that is placed under a parent.
ListCall ==
    /\ variant = "scraper"
    /\ Called
    /\ Tuple.type \in ScraperTypes \ {"PREAMBULO"}

\* The open element the tuple of the step would attach to (0: none is open,
\* a fresh parent is made), and whether that parent already holds a child
\* of the tuple's kind and number.
AttachParent == lcurrent[_find_parent_type(Tuple.type)]
DuplicateUnderParent ==
    /\ AttachParent # 0
    /\ \E c \in ListChildrenOf(lheap, AttachParent) :
          /\ lheap[c].type = Tuple.type
          /\ lheap[c].number = Tuple.number

\* The step has put the element of its tuple in the tree.
Inserted ==
    \E e \in (Len(lheap) + 1)..Len(lheap') :
        /\ lheap'[e].type = Tuple.type
        /\ lheap'[e].number = Tuple.number
        /\ lheap'[e].text = Tuple.text
        /\ lheap'[e].parent # 0

\* C23: the list-based builder discards an element as a duplicate only if
\* the parent it would attach to already holds a child of the same kind and
\* number; the same kind and number under another parent is inserted.
C23_DuplicateScope ==
    [][(ListCall /\ ~DuplicateUnderParent) => Inserted]_vars

\* The elements of the list-based heap h reachable from p through children.
RECURSIVE ListDescendants(_, _)
ListDescendants(h, p) ==
    {p} \cup UNION {ListDescendants(h, c) : c \in ListChildrenOf(h, p)}

\* Element e of the list-based tree was supplied by a process_element call.
Supplied(e) ==
    \E i \in 1..Len(history) :
        /\ history[i].type = lheap[e].type
        /\ history[i].number = lheap[e].number
        /\ history[i].text = lheap[e].text

\* No tuple of kind t was ever supplied / the tuple of the step is the
\* first of its kind and number.
NeverOpened(t) == \A i \in 1..Len(history) : history[i].type # t
FirstOfItsKind ==
    \A i \in 1..Len(history) :
        ~(history[i].type = Tuple.type /\ history[i].number = Tuple.number)

\* Every element below the root was supplied by some call.
C24_State ==
    variant = "scraper" =>
        \A e \in ListDescendants(lheap, lroot) \ {lroot} : Supplied(e)

\* An Article arriving while a Title is open, when no Chapter, Section or
\* Subsection was ever opened, becomes a direct child of that Title.
C24_Step ==
    ( /\ ListCall
      /\ Tuple.type = "ARTIGO"
      /\ FirstOfItsKind
      /\ lcurrent["TITULO"] # 0
      /\ \A t \in {"CAPITULO", "SECAO", "SUBSECAO"} : NeverOpened(t) )
    => /\ Inserted
       /\ lheap'[Len(lheap')].parent = lcurrent["TITULO"]

\* C24: the list-based builder fabricates no ancestors: every element of the
\* tree was supplied by a process_element call, and an Article that arrives
\* under an open Title with no Chapter, Section or Subsection ever opened is
\* a direct child of that Title.
C24_NoFabricatedAncestors == []C24_State /\ [][C24_Step]_vars

\* The slots of a current_structure cs, as a set of (kind, element) pairs.
Slots(cs) == {cs[i] : i \in 1..Len(cs)}

\* C25: right after the dict-based process_element has handled a structural
\* element E of rank r, current_structure holds E in the slot of E's kind,
\* no other entry of rank >= r, and below rank r the entries it held before
\* the call, each with the same element.
C25_SlotClearing ==
    [][(variant = "scraping" /\ Called /\ Structural(Tuple.type)) =>
          LET r == Rank(Tuple.type)
              E == Len(heap')
          IN /\ Len(heap') = Len(heap) + 1
             /\ heap'[E].type = Tuple.type
             /\ heap'[E].number = Tuple.number
             /\ [t |-> Tuple.type, e |-> E] \in Slots(current_structure')
             /\ \A s \in Slots(current_structure') : s.e # E => Rank(s.t) < r
             /\ Cardinality({i \in 1..Len(current_structure') :
                                 current_structure'[i].e = E}) = 1
             /\ {s \in Slots(current_structure') : Rank(s.t) < r}
                    = {s \in Slots(current_structure) : Rank(s.t) < r}]_vars

\* C25 witness: Title, Article, then a Chapter: the Chapter closed the
\* Article's slot and left the Title's.
C25_Witness ==
    /\ variant = "scraping"
    /\ calls = 3
    /\ history[1].type = "TITULO"
    /\ history[2].type = "ARTIGO"
    /\ history[3].type = "CAPITULO"
    /\ Len(current_structure) = 2
    /\ current_structure[1].t = "TITULO"
    /\ current_structure[2].t = "CAPITULO"
    /\ current_structure[2].e = Len(heap)

\* The reference scan of a numeral from the right, the characters
\* roman[1..i] still to come: a digit is added when it is at least the
\* greatest digit seen so far (which it then is), subtracted otherwise.
RECURSIVE reference_scan(_, _, _, _, _)
reference_scan(roman, i, maximum, plus, minus) ==
    IF i = 0 THEN [plus |-> plus, minus |-> minus]
    ELSE LET v == values(roman[i])
         IN IF v >= maximum
            THEN reference_scan(roman, i - 1, v, plus + v, minus)
            ELSE reference_scan(roman, i - 1, maximum, plus, minus + v)
Reference(roman) == reference_scan(roman, Len(roman), 0, 0, 0)

\* C26: for every string of Roman letters that _is_valid_roman_numeral
\* accepts, _roman_to_int returns the value of the reference scan, which
\* compares each digit with the running maximum.
C26_ConversionAlgorithm ==
    ( /\ variant = "text"
      /\ ret.op = "_roman_to_int"
      /\ arg \in RomanStrings
      /\ ret.valid )
    => ret.value + Reference(arg).minus = Reference(arg).plus

\* C27: a run of _fetch_html makes at most max_retries calls of client.get
\* and ends either returning content that is not empty or raising
\* ConstitutionScraperError, never returning None or empty content; a call
\* of get that raised HTTPClientError in a round that is not the last is
\* followed by another round.
C27_BoundedFetch ==
    variant = "fetch" =>
        /\ Len(gets) <= max_retries
        /\ fetched.done =>
              \/ fetched.raised = "ConstitutionScraperError"
              \/ /\ fetched.raised = "none"
                 /\ fetched.value # None
                 /\ fetched.value # <<>>
        /\ ( /\ gets # <<>>
             /\ gets[Len(gets)].raised = "HTTPClientError"
             /\ Len(gets) < max_retries )
           => ~fetched.done /\ attempt = Len(gets)

\* C28: a paragraph whose text is a "SUBSEC,A~O <numeral>" header gives a
\* tuple of kind SUBSECAO, never SECAO.
C28_SubsectionKind ==
    [][(ReadsParagraph /\ HeaderForm(ThisText, s_SUBSECAO)) =>
          /\ Called
          /\ Tuple.type = "SUBSECAO"]_vars

\* C29: in the dict-based builder every element held in current_structure
\* is reachable from the root (or the transitional root) through children,
\* whatever tuples were processed, those without a number included.
C29_OpenSlotsInTree ==
    variant = "scraping" =>
        \A i \in 1..Len(current_structure) :
            current_structure[i].e \in InTree(heap)

\* C30: once a PREAMBULO element was processed by the list-based builder
\* and became the root, processing an element of another kind leaves that
\* same element, with its text, as the root, and the element placed by the
\* call is reachable from it.
C30_PreambleSurvives ==
    [][( /\ variant = "scraper"
         /\ Called
         /\ Tuple.type \in ScraperTypes \ {"PREAMBULO"}
         /\ Supplied(lroot) )
       => /\ lroot' = lroot
          /\ lheap'[lroot'].text = lheap[lroot].text
          /\ \A e \in (Len(lheap) + 1)..Len(lheap') :
                 e \in ListDescendants(lheap', lroot')]_vars

====
